---- MODULE Spec2Model ----
(***************************************************************************)
(* QuickReader content script (src/contentScript.js): the debounced        *)
(* scheduler, the container tagger, the transformer (renderElement), the   *)
(* reverter (processContainers) and the word transformer (renderWord).     *)
(*                                                                         *)
(* Text is a sequence of one-character strings over                        *)
(*   "b"  a letter          " "  whitespace        "E"  an emoji           *)
(*   "<" ">"  symbols (matched by \p{Symbol}), and "/" in generated markup *)
(* A text run (the child nodes of an element that are not elements of the  *)
(* page) is a sequence of nodes [b, s, n]: b = TRUE for a                  *)
(* b[quickreader-rendered] span, s its text content, n the number of       *)
(* b[quickreader-rendered] spans nested inside it.                         *)
(***************************************************************************)
EXTENDS Integers, Sequences, FiniteSets, TLC

\* ------------------------------------------------------------------------
\* Sequence helpers
\* ------------------------------------------------------------------------
RECURSIVE Flatten(_)
Flatten(ss) == IF ss = <<>> THEN <<>> ELSE Head(ss) \o Flatten(Tail(ss))

Last(s) == s[Len(s)]

Range(s) == { s[i] : i \in 1..Len(s) }

\* ------------------------------------------------------------------------
\* Word Transformer: renderWord (contentScript.js 481-501)
\* ------------------------------------------------------------------------
Styles == {"half", "start", "other"}

IsSpace(c) == c = " "

\* unicodePattern, line 405: [\p{Emoji}\p{Symbol}\p{Extended_Pictographic}...]
unicodePattern(c) == c \in {"E", "<", ">"}

Min(a, b) == IF a < b THEN a ELSE b

Max(a, b) == IF a > b THEN a ELSE b

\* Math.round(len * 0.3): nearest integer, halves rounded up
Round03(len) == (3 * len + 5) \div 10

\* line 487 without Math.min(7, ...)
StartBoldLengthNoCap(len) == Max(1, Round03(len))

\* line 487
StartBoldLength(len) == Min(7, Max(1, Round03(len)))

\* lines 490-491 without the + (text.length % 2)
HalfBoldLengthFloor(len) == len \div 2

\* lines 490-491 and 494-495: middleIndex + (text.length % 2)
HalfBoldLength(len) == (len \div 2) + (len % 2)

\* lines 486-495 with the else-branch taking the start length
boldLengthStartElse(text, style) ==
  IF style = "half" THEN HalfBoldLength(Len(text)) ELSE StartBoldLength(Len(text))

\* lines 486-495: 'start', 'half', and the else-branch that warns and
\* computes what 'half' computes
boldLength(text, style) ==
  IF style = "start" THEN StartBoldLength(Len(text)) ELSE HalfBoldLength(Len(text))

BOpen == <<"<", "b", ">">>

BClose == <<"<", "/", "b", ">">>

\* renderWord without line 484
renderWordAnyLength(text, style) ==
  BOpen \o SubSeq(text, 1, boldLength(text, style)) \o BClose
    \o SubSeq(text, boldLength(text, style) + 1, Len(text))

\* renderWord(text) with boldingMode = style; text.trim() is the identity on a \S+ token
renderWord(text, style) ==
  IF Len(text) < 2 THEN text
  ELSE BOpen \o SubSeq(text, 1, boldLength(text, style)) \o BClose
         \o SubSeq(text, boldLength(text, style) + 1, Len(text))

\* ------------------------------------------------------------------------
\* Segmentation: processNode, lines 405-418
\* ------------------------------------------------------------------------
\* text.split(unicodePattern).filter(s => s !== ''): every pattern character
\* is a segment of its own, every maximal run of other characters is a segment
RECURSIVE Segments(_)
Segments(text) ==
  IF text = <<>> THEN <<>>
  ELSE IF unicodePattern(Head(text)) THEN <<<<Head(text)>>>> \o Segments(Tail(text))
  ELSE LET rest == Segments(Tail(text))
       IN IF rest # <<>> /\ ~unicodePattern(Head(rest)[1])
          THEN <<<<Head(text)>> \o Head(rest)>> \o Tail(rest)
          ELSE <<<<Head(text)>>>> \o rest

\* segment.match(/(\s+|\S+)/g): maximal runs of whitespace and of non-whitespace
RECURSIVE Words(_)
Words(segment) ==
  IF segment = <<>> THEN <<>>
  ELSE LET rest == Words(Tail(segment))
       IN IF rest # <<>> /\ IsSpace(Head(rest)[1]) = IsSpace(Head(segment))
          THEN <<<<Head(segment)>> \o Head(rest)>> \o Tail(rest)
          ELSE <<<<Head(segment)>>>> \o rest

\* lines 409-418: rendered += ...
RenderSegment(segment, style) ==
  IF unicodePattern(segment[1]) THEN segment
  ELSE LET ws == Words(segment)
       IN Flatten([i \in 1..Len(ws) |->
                     IF IsSpace(ws[i][1]) THEN ws[i] ELSE renderWord(ws[i], style)])

Rendered(text, style) ==
  LET segs == Segments(text)
  IN Flatten([i \in 1..Len(segs) |-> RenderSegment(segs[i], style)])

\* ------------------------------------------------------------------------
\* tempDiv.innerHTML = rendered (line 422): the HTML fragment parser on the
\* characters of this model.  Elements other than b are transparent (their
\* text stays in the run); a tag cut off by the end of the input is dropped.
\* ------------------------------------------------------------------------
TextNode(s) == [b |-> FALSE, s |-> s, n |-> 0]

BNode(s, n) == [b |-> TRUE, s |-> s, n |-> n]

\* insert a character: into the innermost open b, else into the current text node
EmitChar(ps, c) ==
  IF ps.depth > 0
  THEN [ps EXCEPT !.out = [@ EXCEPT ![Len(@)].s = @ \o <<c>>]]
  ELSE IF ps.out # <<>> /\ ~Last(ps.out).b /\ ~ps.brk
       THEN [ps EXCEPT !.out = [@ EXCEPT ![Len(@)].s = @ \o <<c>>]]
       ELSE [ps EXCEPT !.out = Append(@, TextNode(<<c>>)), !.brk = FALSE]

\* a complete tag: <b ...> opens a span, </b> closes the innermost one,
\* any other start tag opens an element this model keeps transparent
EmitTag(ps) ==
  IF ps.name = <<"b">> /\ ~ps.end
  THEN IF ps.depth = 0
       THEN [ps EXCEPT !.out = Append(@, BNode(<<>>, 0)), !.depth = 1, !.st = "data"]
       ELSE [ps EXCEPT !.out = [@ EXCEPT ![Len(@)].n = @ + 1], !.depth = @ + 1, !.st = "data"]
  ELSE IF ps.name = <<"b">> /\ ps.end
  THEN [ps EXCEPT !.depth = Max(0, @ - 1), !.st = "data"]
  ELSE IF ps.end THEN [ps EXCEPT !.st = "data"]
  ELSE [ps EXCEPT !.brk = (ps.depth = 0), !.st = "data"]

ParseStep(ps, c) ==
  CASE ps.st = "data" ->
         IF c = "<" THEN [ps EXCEPT !.st = "tagopen"] ELSE EmitChar(ps, c)
    [] ps.st = "tagopen" ->
         IF c = "b" THEN [ps EXCEPT !.st = "tagname", !.name = <<"b">>, !.end = FALSE]
         ELSE IF c = "/" THEN [ps EXCEPT !.st = "endtagopen"]
         ELSE IF c = "<" THEN EmitChar(ps, "<")
         ELSE EmitChar([EmitChar(ps, "<") EXCEPT !.st = "data"], c)
    [] ps.st = "endtagopen" ->
         IF c = "b" THEN [ps EXCEPT !.st = "tagname", !.name = <<"b">>, !.end = TRUE]
         ELSE IF c = ">" THEN [ps EXCEPT !.st = "data"]
         ELSE [ps EXCEPT !.st = "bogus"]
    [] ps.st = "bogus" ->
         IF c = ">" THEN [ps EXCEPT !.st = "data"] ELSE ps
    [] ps.st = "tagname" ->
         IF c = ">" THEN EmitTag(ps)
         ELSE IF c \in {" ", "/"} THEN [ps EXCEPT !.st = "intag"]
         ELSE [ps EXCEPT !.name = Append(@, c)]
    [] ps.st = "intag" ->
         IF c = ">" THEN EmitTag(ps) ELSE ps

\* the tokenizer over the input r; a character of text goes straight to the tree
RECURSIVE ParseFrom(_, _)
ParseFrom(ps, r) ==
  IF r = <<>> THEN ps
  ELSE IF ps.st = "data" /\ Head(r) # "<" THEN ParseFrom(EmitChar(ps, Head(r)), Tail(r))
  ELSE ParseFrom(ParseStep(ps, Head(r)), Tail(r))

\* end of input: "<" and "</" not followed by a tag name are text, an open tag is dropped
ParseEnd(ps) ==
  IF ps.st = "tagopen" THEN EmitChar(ps, "<").out
  ELSE IF ps.st = "endtagopen" THEN EmitChar(EmitChar(ps, "<"), "/").out
  ELSE ps.out

ParseHTML(r) ==
  ParseEnd(ParseFrom([st |-> "data", out |-> <<>>, depth |-> 0, brk |-> FALSE,
                      name |-> <<>>, end |-> FALSE], r))

\* ------------------------------------------------------------------------
\* The document: a fixed arrangement of elements, some of them attached.
\*   body > n1 > n2 > A > B        A, C at depth 3, B at depth 4
\*                  > C            C is an empty block
\*   body > U                      U is added by the page after startup
\*   body > X > Y                  X is a region the page may mark excluded
\*   body > L                      L is a link the page may add after startup
\* ------------------------------------------------------------------------
Elems == {"body", "n1", "n2", "A", "B", "C", "U", "X", "Y", "L"}

\* document order (pre-order)
DocOrder == <<"body", "n1", "n2", "A", "B", "C", "U", "X", "Y", "L">>

Parent(e) ==
  CASE e = "n1" -> "body" [] e = "n2" -> "n1" [] e = "A" -> "n2" [] e = "B" -> "A"
    [] e = "C" -> "n2" [] e = "U" -> "body" [] e = "X" -> "body" [] e = "Y" -> "X"
    [] e = "L" -> "body"
    [] OTHER -> "none"

tagName(e) ==
  CASE e = "body" -> "body" [] e = "n1" -> "header" [] e = "n2" -> "nav"
    [] e = "A" -> "div" [] e = "B" -> "p" [] e = "C" -> "div" [] e = "U" -> "p"
    [] e = "X" -> "form" [] e = "Y" -> "p" [] e = "L" -> "a"

\* elements that have text of their own
TextElems == {"A", "B", "U", "Y", "L"}

\* line 22
semanticElements ==
  <<"p", "h1", "h2", "h3", "h4", "h5", "h6", "span", "article", "section", "main",
    "div", "li", "td", "th", "body">>

IsSemantic(e) == tagName(e) \in Range(semanticElements)

\* line 16
CONTAINER_LEVELS == <<3, 4>>

RECURSIVE DepthFrom(_)
DepthFrom(e) == IF e = "body" THEN 0 ELSE 1 + DepthFrom(Parent(e))

RECURSIVE AncestorsFrom(_)
AncestorsFrom(e) == IF e = "body" THEN {"body"} ELSE {e} \cup AncestorsFrom(Parent(e))

\* the tables of the arrangement above
DepthOf == [e \in Elems |-> DepthFrom(e)]

AncestorsOf == [e \in Elems |-> AncestorsFrom(e)]

SubtreeOf == [e \in Elems |-> { d \in Elems : e \in AncestorsOf[d] }]

PosOf == [e \in Elems |-> CHOOSE i \in 1..Len(DocOrder) : DocOrder[i] = e]

\* number of elements on the path from body
Depth(e) == DepthOf[e]

\* e and its ancestors
Ancestors(e) == AncestorsOf[e]

\* e and its descendants
Subtree(e) == SubtreeOf[e]

Pos(e) == PosOf[e]

\* the elements of a set in document order
InDocOrder(S) == SelectSeq(DocOrder, LAMBDA e : e \in S)

\* kinds of exclusion marker an element can carry: a role (dialog,
\* alertdialog, complementary; or the element is an aside), or a class
\* (modal, dialog, sidebar, overlay)
ExclKinds == {"none", "role", "class"}

\* isSideOrInteractiveContent, lines 29-34: closest(...) looks at the element
\* and its ancestors, matches(...) at the element only
isSideOrInteractiveContent(ex, e) ==
  (\E a \in Ancestors(e) : ex[a] = "role") \/ ex[e] = "class"

\* ------------------------------------------------------------------------
\* Queries on text runs
\* ------------------------------------------------------------------------
RunHasB(run) == \E i \in 1..Len(run) : run[i].b

\* element.querySelector('b[quickreader-rendered="true"]')
HasRendered(rs, e) == \E t \in Subtree(e) \cap TextElems : RunHasB(rs[t])

\* a b[quickreader-rendered] inside another one
RunHasNested(run) == \E i \in 1..Len(run) : run[i].b /\ run[i].n > 0

TextContent(run) == Flatten([i \in 1..Len(run) |-> run[i].s])

\* text.trim().length === 0
IsBlank(s) == \A i \in 1..Len(s) : IsSpace(s[i])

\* number of entries of querySelectorAll('b[quickreader-rendered="true"]') in a run
RECURSIVE CountB(_)
CountB(run) ==
  IF run = <<>> THEN 0
  ELSE (IF Head(run).b THEN 1 + Head(run).n ELSE 0) + CountB(Tail(run))

\* ------------------------------------------------------------------------
\* Unwrapping a span: lines 178-191, 232-245, 280-292
\*   b.replaceWith(createTextNode(b.textContent)); merge with a following text node
\* ------------------------------------------------------------------------
\* unwrap the first span of a run
RECURSIVE UnwrapFirst(_)
UnwrapFirst(run) ==
  IF run = <<>> THEN <<>>
  ELSE IF Head(run).b
       THEN IF Len(run) > 1 /\ ~run[2].b
            THEN <<TextNode(Head(run).s \o run[2].s)>> \o SubSeq(run, 3, Len(run))
            ELSE <<TextNode(Head(run).s)>> \o Tail(run)
       ELSE <<Head(run)>> \o UnwrapFirst(Tail(run))

\* boldTags.forEach(...): every span of the run, in document order
RECURSIVE UnwrapAll(_)
UnwrapAll(run) == IF RunHasB(run) THEN UnwrapAll(UnwrapFirst(run)) ELSE run

\* initializeQuickReader, line 309: b.replaceWith(b.textContent), no merge
UnwrapPlain(run) == [i \in 1..Len(run) |-> TextNode(run[i].s)]

\* ------------------------------------------------------------------------
\* State
\* ------------------------------------------------------------------------
VARIABLES
  renderingMode,   \* line 8
  boldingMode,     \* line 9
  debounceTimer,   \* line 10: "null", or the callback the pending timer runs
  boldQueue,       \* line 11: references to elements
  unboldQueue,     \* line 12
  observer,        \* line 13: TRUE once the MutationObserver exists
  attached,        \* the elements that are in the document
  excl,            \* the exclusion marker of every element
  tag,             \* the quickreader-container attribute of every element
  runs,            \* the text run of every element of TextElems
  lazyObserved,    \* targets of the lazyObservers (lines 332-355)
  visObserved,     \* targets of visibilityObserver (line 82)
  tasks,           \* pending setTimeout(..., 0) callbacks, oldest first
  storagePending,  \* chrome.storage.sync.get has not called back yet (line 533)
  docLoading,      \* DOMContentLoaded has not fired yet
  dclListeners,    \* DOMContentLoaded listeners registered (line 316)
  orig,            \* the text of every run when the script started
  fuel,            \* events the environment may still deliver
  last,            \* the timer callback that ran last and the queue it found, or the
                   \* exception the last handler did not catch
  rev,             \* what the revert started by the last notification has to undo
  call,            \* a call of renderWord or of the text branch of processNode, and its value
  timeouts,        \* the callbacks of the timeouts that are armed: set, not cleared, not run
  observers        \* the MutationObservers created and observing the document (line 358)

vars ==
  <<renderingMode, boldingMode, debounceTimer, boldQueue, unboldQueue, observer,
    attached, excl, tag, runs, lazyObserved, visObserved, tasks, storagePending,
    docLoading, dclListeners, orig, fuel, last, rev, call, timeouts, observers>>

\* ------------------------------------------------------------------------
\* Bounds of the model
\* ------------------------------------------------------------------------
\* events the environment delivers in one behaviour after the page has
\* loaded: mode notifications, intersections, and changes of the marker of X
MaxEvents == 3

\* containers per batch (line 197 has 5) and spans per sub-batch (line 225
\* has 100), scaled to the size of the document of this model
batchSize == 2

tagBatchSize == 1

\* ------------------------------------------------------------------------
\* References to nodes.  A reference held in a queue, a NodeList or a closure
\* keeps pointing at the original node after a clone has taken its place in
\* the document; att = FALSE then, and st and hb are the container status and
\* the presence of spans the original node had when it left the document.
\* ------------------------------------------------------------------------
Ref(e) == [el |-> e, att |-> TRUE, st |-> "none", hb |-> FALSE]

\* the part of the state the transformer and the reverter work on
Doc ==
  [runs |-> runs, tag |-> tag, tasks |-> tasks, boldQueue |-> boldQueue,
   unboldQueue |-> unboldQueue, lazyObserved |-> lazyObserved,
   visObserved |-> visObserved]

\* element.querySelector(b[...]) || element.closest(b[...]) through a reference
RefHasRendered(d, r) == IF r.att THEN HasRendered(d.runs, r.el) ELSE r.hb

RefLive(r) == r.att /\ r.el \in attached

\* ------------------------------------------------------------------------
\* Transformer: renderElement, lines 391-474
\* ------------------------------------------------------------------------
\* processNode on a text node of element e, lines 393-433
processTextNode(node, e, style) ==
  IF ~node.b /\ ~IsBlank(node.s) /\ ~isSideOrInteractiveContent(excl, e)
  THEN ParseHTML(Rendered(node.s, style))
  ELSE <<node>>

\* a text node of e is replaced by the walk
Replaces(run, e) ==
  /\ ~isSideOrInteractiveContent(excl, e)
  /\ \E i \in 1..Len(run) : ~run[i].b /\ ~IsBlank(run[i].s)

\* parentElement.closest('[quickreader-container]'), line 443
Closest(tg, e) ==
  LET cands == { a \in Ancestors(e) : tg[a] # "none" }
  IN IF cands = {} THEN "none"
     ELSE CHOOSE a \in cands : \A o \in cands : Depth(o) <= Depth(a)

\* lines 443-445 for every element of a set
RECURSIVE Promote(_, _)
Promote(tg, S) ==
  IF S = {} THEN tg
  ELSE LET e == CHOOSE x \in S : TRUE
           c == Closest(tg, e)
       IN Promote(IF c = "none" THEN tg ELSE [tg EXCEPT ![c] = "active"], S \ {e})

\* processNode(element), lines 457-463: the walk reaches every text node below
\* the element, because the guard of renderElement found no span below it
processNode(d, e, style) ==
  LET below == Subtree(e) \cap TextElems \cap attached
      hit == { t \in below : Replaces(d.runs[t], t) }
  IN [d EXCEPT
        !.runs = [t \in TextElems |->
                    IF t \in below
                    THEN Flatten([i \in 1..Len(d.runs[t]) |->
                                    processTextNode(d.runs[t][i], t, style)])
                    ELSE d.runs[t]],
        !.tag = Promote(d.tag, hit)]

\* the guard below without its test of the mode
EligibleAnyMode(d, r, mode) ==
  /\ ~RefHasRendered(d, r)
  /\ ~isSideOrInteractiveContent(excl, r.el)

\* the guard the code repeats at lines 87-92, 125-130, 319-325, 337-342, 466-471
Eligible(d, r, mode) ==
  /\ mode = "on"
  /\ ~RefHasRendered(d, r)
  /\ ~isSideOrInteractiveContent(excl, r.el)

\* lines 466-473; a walk over nodes that left the document changes nothing
\* (line 399: document.body.contains(node))
renderElement(d, r, mode, style) ==
  IF Eligible(d, r, mode) /\ RefLive(r) THEN processNode(d, r.el, style) ELSE d

\* ------------------------------------------------------------------------
\* Reverter: processContainers, lines 171-298
\* ------------------------------------------------------------------------
\* a fallback that finds no span to unwrap
flatFallbackNone(d) == d

\* lines 177-192 and 279-293: document.querySelectorAll(b[...]).forEach(unwrap)
flatFallback(d) ==
  [d EXCEPT !.runs = [t \in TextElems |->
                        IF t \in attached THEN UnwrapAll(d.runs[t]) ELSE d.runs[t]]]

\* container.cloneNode(true), line 215; skip counts the entries of boldTags
\* that lie inside a span already unwrapped (line 238 then acts on nodes that
\* are no longer in the clone)
cloneNode(d, c) ==
  [runs |-> [t \in Subtree(c) \cap TextElems \cap attached |-> d.runs[t]],
   tags |-> [e \in Subtree(c) |-> d.tag[e]],
   skip |-> 0]

boldTagsLeft(cl) ==
  cl.skip > 0 \/ \E t \in DOMAIN cl.runs : RunHasB(cl.runs[t])

\* lines 231-246: the next k entries of boldTags
RECURSIVE processTags(_, _)
processTags(cl, k) ==
  IF k = 0 \/ ~boldTagsLeft(cl) THEN cl
  ELSE IF cl.skip > 0 THEN processTags([cl EXCEPT !.skip = @ - 1], k - 1)
  ELSE LET withB == { t \in DOMAIN cl.runs : RunHasB(cl.runs[t]) }
           t == CHOOSE x \in withB : \A o \in withB : Pos(x) <= Pos(o)
           i == CHOOSE j \in 1..Len(cl.runs[t]) :
                  cl.runs[t][j].b /\ \A h \in 1..(j - 1) : ~cl.runs[t][h].b
       IN processTags([cl EXCEPT !.runs[t] = UnwrapFirst(@),
                                 !.skip = cl.runs[t][i].n], k - 1)

\* a reference to a node of the set S now points outside the document
Detach(d, S, r) ==
  IF r.att /\ r.el \in S
  THEN [el |-> r.el, att |-> FALSE, st |-> d.tag[r.el], hb |-> HasRendered(d.runs, r.el)]
  ELSE r

DetachAll(d, S, rs) == [i \in 1..Len(rs) |-> Detach(d, S, rs[i])]

DetachTask(d, S, t) ==
  IF t.k = "batch" THEN [t EXCEPT !.cs = DetachAll(d, S, @)]
  ELSE [t EXCEPT !.c = Detach(d, S, @)]

\* The MutationObserver callback (lines 358-375) for an added element e
observes(d, e, mode) ==
  /\ observer
  /\ mode = "on"
  /\ \E t \in Subtree(e) \cap TextElems \cap attached : ~IsBlank(TextContent(d.runs[t]))
  /\ ~HasRendered(d.runs, e)
  /\ ~isSideOrInteractiveContent(excl, e)

\* lines 258-260: container.parentNode.replaceChild(clone, container);
\* clone.removeAttribute('quickreader-container').  The nodes below the
\* container are new nodes: no observer watches them, and the references
\* held elsewhere keep the old ones.
replaceChild(d, c, cl, mode) ==
  LET S  == Subtree(c)
      d1 == [d EXCEPT
               !.runs = [t \in TextElems |-> IF t \in DOMAIN cl.runs THEN cl.runs[t] ELSE @[t]],
               !.tag = [e \in Elems |->
                          IF e = c THEN "none" ELSE IF e \in S THEN cl.tags[e] ELSE @[e]],
               !.boldQueue = DetachAll(d, S, @),
               !.unboldQueue = DetachAll(d, S, @),
               !.tasks = [i \in 1..Len(@) |-> DetachTask(d, S, @[i])],
               !.lazyObserved = @ \ S,
               !.visObserved = @ \ S]
  IN IF observes(d1, c, mode) THEN [d1 EXCEPT !.visObserved = @ \cup {c}] ELSE d1

\* processTagBatch, lines 227-265; w = [d, cs, hasActive] is the state of the
\* enclosing processContainers call
processTagBatch(w, r, cl0, mode) ==
  LET cl == processTags(cl0, tagBatchSize)
  IN IF boldTagsLeft(cl)
     THEN [w EXCEPT !.d.tasks = Append(@, [k |-> "tag", c |-> r, cl |-> cl])]
     ELSE IF RefLive(r)
          THEN [w EXCEPT !.d = replaceChild(w.d, r.el, cl, mode),
                         !.cs = DetachAll(w.d, Subtree(r.el), @)]
          ELSE w

\* a for-loop body that sends an Inactive container down the Active branch
processContainerAll(w, i, mode) ==
  LET r == w.cs[i]
      status == IF RefLive(r) THEN w.d.tag[r.el] ELSE r.st
  IN IF status \in {"inactive", "active"}
     THEN LET w1 == [w EXCEPT !.hasActive = TRUE]
          IN IF ~RefLive(r) THEN w1
             ELSE IF ~HasRendered(w.d.runs, r.el) THEN w1
             ELSE processTagBatch(w1, r, cloneNode(w.d, r.el), mode)
     ELSE w

\* the body of the for loop, lines 205-269, for containers[i]
processContainer(w, i, mode) ==
  LET r == w.cs[i]
      status == IF RefLive(r) THEN w.d.tag[r.el] ELSE r.st
  IN IF status = "inactive"
     THEN IF RefLive(r) THEN [w EXCEPT !.d.tag[r.el] = "none"] ELSE w
     ELSE IF status = "active"
     THEN LET w1 == [w EXCEPT !.hasActive = TRUE]
          IN IF ~RefLive(r) THEN w1
             ELSE IF ~HasRendered(w.d.runs, r.el) THEN w1
             ELSE processTagBatch(w1, r, cloneNode(w.d, r.el), mode)
     ELSE w

\* a batch loop that ends at the first Active container it has to skip
RECURSIVE batchLoopStops(_, _, _, _)
batchLoopStops(w, i, end, mode) ==
  IF i > end THEN w
  ELSE LET r == w.cs[i]
           status == IF RefLive(r) THEN w.d.tag[r.el] ELSE r.st
       IN IF status = "active" /\ (~RefLive(r) \/ ~HasRendered(w.d.runs, r.el))
          THEN [w EXCEPT !.hasActive = TRUE]
          ELSE batchLoopStops(processContainer(w, i, mode), i + 1, end, mode)

RECURSIVE batchLoop(_, _, _, _)
batchLoop(w, i, end, mode) ==
  IF i > end THEN w ELSE batchLoop(processContainer(w, i, mode), i + 1, end, mode)

\* processBatch, lines 200-296, from containers[index]
processBatch(d, cs, index, hasActive, mode) ==
  LET end == Min(index + batchSize - 1, Len(cs))
      w == batchLoop([d |-> d, cs |-> cs, hasActive |-> hasActive], index, end, mode)
  IN IF end < Len(cs)
     THEN [w.d EXCEPT !.tasks = Append(@, [k |-> "batch", cs |-> w.cs, index |-> end + 1,
                                           hasActive |-> w.hasActive])]
     ELSE IF ~w.hasActive THEN flatFallback(w.d) ELSE w.d

\* document.querySelectorAll('[quickreader-container]'), line 172
containers(d) == InDocOrder({ e \in attached : d.tag[e] # "none" })

processContainers(d, mode) ==
  LET cs == containers(d)
  IN IF cs = <<>> THEN flatFallback(d)
     ELSE processBatch(d, [i \in 1..Len(cs) |-> Ref(cs[i])], 1, FALSE, mode)

\* the armed timeouts ts without the first one whose callback is h
Without(ts, h) ==
  IF \E i \in 1..Len(ts) : ts[i] = h
  THEN LET i == CHOOSE x \in 1..Len(ts) : ts[x] = h /\ \A y \in 1..(x - 1) : ts[y] # h
       IN SubSeq(ts, 1, i - 1) \o SubSeq(ts, i + 1, Len(ts))
  ELSE ts

\* an enqueue that leaves the pending timeout armed
clearTimeoutNot(ts, h) == ts

\* if (debounceTimer) clearTimeout(debounceTimer), lines 117-119 and 148-150
clearTimeout(ts, h) == Without(ts, h)

\* lines 117-121 and 148-152: the pending timeout is cleared and one with
\* the callback k is set
debounce(ts, h, k) == Append(clearTimeout(ts, h), k)

\* the timeout with the callback h runs
expire(ts, h) == Without(ts, h)

\* ------------------------------------------------------------------------
\* Scheduler: debounceRenderBold / debounceRenderUnbold, lines 112-165
\* ------------------------------------------------------------------------
\* line 114 (the timer is re-armed by the caller's action, lines 117-121)
pushBold(d, r) == [d EXCEPT !.boldQueue = Append(@, r)]

\* line 145
pushUnbold(d, r) == [d EXCEPT !.unboldQueue = Append(@, r)]

\* a timer callback that takes the requests from the back of the queue
RECURSIVE drainBoldLifo(_, _, _)
drainBoldLifo(d, mode, style) ==
  IF d.boldQueue = <<>> THEN d
  ELSE LET r == Last(d.boldQueue)
           d1 == [d EXCEPT !.boldQueue = SubSeq(@, 1, Len(@) - 1)]
       IN drainBoldLifo(renderElement(d1, r, mode, style), mode, style)

\* a timer callback that empties the queue without rendering
drainBoldDrops(d, mode, style) == [d EXCEPT !.boldQueue = <<>>]

\* the timer callback of debounceRenderBold, lines 122-134
RECURSIVE drainBold(_, _, _)
drainBold(d, mode, style) ==
  IF d.boldQueue = <<>> THEN d
  ELSE LET r == Head(d.boldQueue)
           d1 == [d EXCEPT !.boldQueue = Tail(@)]
       IN drainBold(renderElement(d1, r, mode, style), mode, style)

\* the timer callback of debounceRenderUnbold, lines 153-163
RECURSIVE drainUnbold(_, _)
drainUnbold(d, mode) ==
  IF d.unboldQueue = <<>> THEN d
  ELSE LET r == Head(d.unboldQueue)
           d1 == [d EXCEPT !.unboldQueue = Tail(@)]
       IN drainUnbold(IF mode = "off" /\ RefHasRendered(d1, r)
                      THEN processContainers(d1, mode) ELSE d1, mode)

\* ------------------------------------------------------------------------
\* Tagger and initialization: lines 40-63 and 303-385
\* ------------------------------------------------------------------------
\* lines 42-48: the elements at the configured levels below body
allElements == { e \in attached : Depth(e) \in Range(CONTAINER_LEVELS) }

\* lines 52-62
tagPotentialContainers(d) ==
  [d EXCEPT !.tag = [e \in Elems |->
                       IF e \in allElements /\ IsSemantic(e)
                          /\ ~isSideOrInteractiveContent(excl, e)
                       THEN "inactive" ELSE @[e]]]

\* line 304: body.querySelectorAll(':scope > * > *')
levelThreeElements == { e \in attached : Depth(e) = 2 }

\* lines 351-355: every semantic element is handed to a new lazyObserver
lazyTargets == { e \in attached : IsSemantic(e) }

\* the part of initializeQuickReader that acts on the document and the observers
initDoc(d) ==
  IF levelThreeElements = {}
  THEN [d EXCEPT !.runs = [t \in TextElems |->
                             IF t \in attached THEN UnwrapPlain(@[t]) ELSE @[t]]]
  ELSE [tagPotentialContainers(d) EXCEPT !.lazyObserved = @ \cup lazyTargets]

\* the assignments of the actions below
Commit(d) ==
  /\ runs' = d.runs
  /\ tag' = d.tag
  /\ tasks' = d.tasks
  /\ boldQueue' = d.boldQueue
  /\ unboldQueue' = d.unboldQueue
  /\ lazyObserved' = d.lazyObserved
  /\ visObserved' = d.visObserved

\* a guard that lets every initialization create an observer
observerMissingAlways(o) == TRUE

\* if (!observer), line 357
observerMissing(o) == ~o

\* initializeQuickReader(), lines 303-385
initializeQuickReader ==
  /\ Commit(initDoc(Doc))
  /\ observer' = (observer \/ levelThreeElements # {})
  /\ observers' = IF levelThreeElements # {} /\ observerMissing(observer)
                  THEN observers + 1 ELSE observers
  /\ dclListeners' = IF levelThreeElements # {} /\ docLoading
                     THEN dclListeners + 1 ELSE dclListeners

\* ------------------------------------------------------------------------
\* Actions
\* ------------------------------------------------------------------------
\* a processed span of t has no tagged ancestor container
Untraceable(t) == t \in attached /\ RunHasB(runs[t]) /\ Closest(tag, t) = "none"

\* the last handler was not a timer callback
NoPass == [op |-> "none", q |-> <<>>]

NoRevert == [on |-> FALSE, owed |-> {}, untraced |-> FALSE]

\* a mode notification starts a revert: the containers that are Inactive, or
\* Active with a processed span, and whether some span is untraceable
RevertStarts ==
  [on |-> TRUE,
   owed |-> { e \in attached : tag[e] = "inactive" \/ (tag[e] = "active" /\ HasRendered(runs, e)) },
   untraced |-> \E t \in TextElems : Untraceable(t)]

Modes == {"on", "off"}

\* chrome.storage.sync.get callback, lines 533-538
StorageLoaded(mode, style) ==
  /\ storagePending
  /\ storagePending' = FALSE
  /\ renderingMode' = mode
  /\ boldingMode' = style
  /\ initializeQuickReader
  /\ last' = NoPass
  /\ rev' = NoRevert
  /\ UNCHANGED <<call, timeouts>>
  /\ UNCHANGED <<debounceTimer, attached, excl, docLoading, orig, fuel>>

\* chrome.runtime.onMessage listener, lines 519-530
UpdateSettings(mode, style) ==
  /\ ~storagePending
  /\ fuel > 0
  /\ fuel' = fuel - 1
  /\ renderingMode' = mode
  /\ boldingMode' = style
  /\ IF mode = "off"
     THEN /\ Commit(processContainers(Doc, mode))
          /\ UNCHANGED <<observer, observers, dclListeners>>
     ELSE initializeQuickReader
  /\ last' = NoPass
  /\ rev' = IF mode = "off" THEN RevertStarts ELSE NoRevert
  /\ UNCHANGED <<call, timeouts>>
  /\ UNCHANGED <<debounceTimer, attached, excl, storagePending, docLoading, orig>>

\* the elements the startup scan visits, in the order of lines 317-318
scanOrder ==
  Flatten([i \in 1..Len(semanticElements) |->
             InDocOrder({ e \in attached : tagName(e) = semanticElements[i] })])

\* lines 317-329 for the elements of the sequence es that are visible
RECURSIVE scan(_, _, _, _)
scan(d, es, vis, mode) ==
  IF es = <<>> THEN d
  ELSE IF Head(es) \in vis /\ Eligible(d, Ref(Head(es)), mode)
       THEN scan(pushBold(d, Ref(Head(es))), Tail(es), vis, mode)
       ELSE scan(d, Tail(es), vis, mode)

\* every registered listener runs the scan
RECURSIVE scans(_, _, _, _)
scans(d, n, vis, mode) ==
  IF n = 0 THEN d ELSE scans(scan(d, scanOrder, vis, mode), n - 1, vis, mode)

\* elements that can be in or near the viewport
Shows == Elems

\* the DOMContentLoaded event, lines 316-330; vis are the elements that
\* isElementVisible (lines 508-516) finds visible
DOMContentLoaded(vis) ==
  /\ docLoading
  /\ ~storagePending
  /\ docLoading' = FALSE
  /\ Commit(scans(Doc, dclListeners, vis, renderingMode))
  /\ debounceTimer' = IF boldQueue' # boldQueue THEN "bold" ELSE debounceTimer
  /\ timeouts' = IF boldQueue' # boldQueue THEN debounce(timeouts, debounceTimer, "bold")
                 ELSE timeouts
  /\ last' = NoPass
  /\ rev' = NoRevert
  /\ UNCHANGED call
  /\ UNCHANGED <<renderingMode, boldingMode, observer, observers, attached, excl, storagePending,
                 dclListeners, orig, fuel>>

\* lazyObserver callback for one intersecting entry, lines 333-347
LazyIntersect(e) ==
  /\ e \in lazyObserved \cap Shows
  /\ fuel > 0
  /\ fuel' = fuel - 1
  /\ Eligible(Doc, Ref(e), renderingMode)
  /\ Commit(pushBold(Doc, Ref(e)))
  /\ debounceTimer' = "bold"
  /\ timeouts' = debounce(timeouts, debounceTimer, "bold")
  /\ last' = NoPass
  /\ rev' = NoRevert
  /\ UNCHANGED call
  /\ UNCHANGED <<renderingMode, boldingMode, observer, observers, attached, excl, storagePending,
                 docLoading, dclListeners, orig>>

\* visibilityObserver callback for one intersecting entry, lines 83-102
VisIntersect(e) ==
  /\ e \in visObserved \cap Shows
  /\ fuel > 0
  /\ fuel' = fuel - 1
  /\ \/ /\ Eligible(Doc, Ref(e), renderingMode)
        /\ Commit([pushBold(Doc, Ref(e)) EXCEPT !.visObserved = @ \ {e}])
        /\ debounceTimer' = "bold"
        /\ timeouts' = debounce(timeouts, debounceTimer, "bold")
     \/ /\ ~Eligible(Doc, Ref(e), renderingMode)
        /\ renderingMode = "off"
        /\ HasRendered(runs, e)
        /\ Commit(pushUnbold(Doc, Ref(e)))
        /\ debounceTimer' = "unbold"
        /\ timeouts' = debounce(timeouts, debounceTimer, "unbold")
  /\ last' = NoPass
  /\ rev' = NoRevert
  /\ UNCHANGED call
  /\ UNCHANGED <<renderingMode, boldingMode, observer, observers, attached, excl, storagePending,
                 docLoading, dclListeners, orig>>

\* the debounce timer set at line 121 expires
TimerBold ==
  /\ debounceTimer = "bold"
  /\ Commit(drainBold(Doc, renderingMode, boldingMode))
  /\ debounceTimer' = "null"
  /\ timeouts' = expire(timeouts, debounceTimer)
  /\ last' = [op |-> "timerBold", q |-> boldQueue]
  /\ rev' = NoRevert
  /\ UNCHANGED call
  /\ UNCHANGED <<renderingMode, boldingMode, observer, observers, attached, excl, storagePending,
                 docLoading, dclListeners, orig, fuel>>

\* the debounce timer set at line 152 expires
TimerUnbold ==
  /\ debounceTimer = "unbold"
  /\ Commit(drainUnbold(Doc, renderingMode))
  /\ debounceTimer' = "null"
  /\ timeouts' = expire(timeouts, debounceTimer)
  /\ last' = [op |-> "timerUnbold", q |-> unboldQueue]
  /\ rev' = NoRevert
  /\ UNCHANGED call
  /\ UNCHANGED <<renderingMode, boldingMode, observer, observers, attached, excl, storagePending,
                 docLoading, dclListeners, orig, fuel>>

\* setTimeout(processBatch, 0), line 274, runs
BatchTask ==
  /\ tasks # <<>>
  /\ Head(tasks).k = "batch"
  /\ LET t == Head(tasks)
         d == processBatch([Doc EXCEPT !.tasks = Tail(@)], t.cs, t.index, t.hasActive,
                           renderingMode)
     IN Commit(d)
  /\ last' = NoPass
  /\ UNCHANGED rev
  /\ UNCHANGED <<call, timeouts>>
  /\ UNCHANGED <<renderingMode, boldingMode, debounceTimer, observer, observers, attached, excl,
                 storagePending, docLoading, dclListeners, orig, fuel>>

\* setTimeout(processTagBatch, 0), line 250, runs
TagTask ==
  /\ tasks # <<>>
  /\ Head(tasks).k = "tag"
  /\ LET t == Head(tasks)
         w == processTagBatch([d |-> [Doc EXCEPT !.tasks = Tail(@)], cs |-> <<>>,
                               hasActive |-> TRUE], t.c, t.cl, renderingMode)
     IN Commit(w.d)
  /\ last' = NoPass
  /\ UNCHANGED rev
  /\ UNCHANGED <<call, timeouts>>
  /\ UNCHANGED <<renderingMode, boldingMode, debounceTimer, observer, observers, attached, excl,
                 storagePending, docLoading, dclListeners, orig, fuel>>

\* the page inserts the element e under body; the MutationObserver callback
\* (lines 358-375) follows
PageInserts(e) ==
  /\ e \notin attached
  /\ Parent(e) = "body"
  /\ ~storagePending
  /\ attached' = attached \cup {e}
  /\ visObserved' = IF observer /\ renderingMode = "on" /\ ~IsBlank(TextContent(runs[e]))
                       /\ ~HasRendered(runs, e) /\ ~isSideOrInteractiveContent(excl, e)
                    THEN visObserved \cup {e} ELSE visObserved
  /\ last' = NoPass
  /\ rev' = NoRevert
  /\ UNCHANGED <<call, timeouts>>
  /\ UNCHANGED <<renderingMode, boldingMode, debounceTimer, boldQueue, unboldQueue, observer, observers,
                 excl, tag, runs, lazyObserved, tasks, storagePending, docLoading,
                 dclListeners, orig, fuel>>

\* the page inserts the paragraph U
PageAdds == PageInserts("U")

\* the page marks or unmarks X as a dialog or sidebar (role) or as an
\* overlay (class); attribute changes are not observed (line 380)
PageMarks(kind) ==
  /\ ~storagePending
  /\ fuel > 0
  /\ fuel' = fuel - 1
  /\ excl["X"] # kind
  /\ excl' = [excl EXCEPT !["X"] = kind]
  /\ last' = NoPass
  /\ rev' = NoRevert
  /\ UNCHANGED <<call, timeouts>>
  /\ UNCHANGED <<renderingMode, boldingMode, debounceTimer, boldQueue, unboldQueue, observer, observers,
                 attached, tag, runs, lazyObserved, visObserved, tasks, storagePending,
                 docLoading, dclListeners, orig>>

\* ------------------------------------------------------------------------
\* Initial states and specification
\* ------------------------------------------------------------------------
\* texts of the page
Texts ==
  { <<"b", "b", "b", " ", "b", "b">>,      \* "bbb bb"
    <<" ", "E", "b", "b", " ", "b">>,      \* " Ebb b"
    <<"b", " ", "b">>,                     \* "b b"
    <<"b", "<", "b">>,                     \* "b<b"
    <<"<", "b", ">", "b", "b">> }          \* "<b>bb"

\* the page of the main specification: "bb b" in A, "bb" elsewhere
PageTexts ==
  [t \in TextElems |-> IF t = "A" THEN <<"b", "b", " ", "b">> ELSE <<"b", "b">>]

InitProgram(txt, page) ==
  /\ renderingMode = "on"
  /\ boldingMode = "half"
  /\ debounceTimer = "null"
  /\ boldQueue = <<>>
  /\ unboldQueue = <<>>
  /\ observer = FALSE
  /\ observers = 0
  /\ attached = page
  /\ excl = [e \in Elems |-> "none"]
  /\ tag = [e \in Elems |-> "none"]
  /\ runs = [t \in TextElems |-> <<TextNode(txt[t])>>]
  /\ lazyObserved = {}
  /\ visObserved = {}
  /\ tasks = <<>>
  /\ storagePending = TRUE
  /\ docLoading = TRUE
  /\ dclListeners = 0
  /\ orig = [t \in TextElems |-> TextContent(runs[t])]
  /\ fuel = MaxEvents
  /\ last = NoPass
  /\ rev = NoRevert
  /\ timeouts = <<>>

\* no call of the word transformer is under observation
NoCall == [op |-> "none", text |-> <<>>, style |-> "half", out |-> <<>>]

\* the page of the main specification: everything but what the page adds later
DeepPage == Elems \ {"U", "L"}

InitWith(txt) == InitProgram(txt, DeepPage) /\ call = NoCall

Init == InitWith(PageTexts)

\* the same page with one of Texts in A
InitText == \E ta \in Texts : InitWith([PageTexts EXCEPT !["A"] = ta])

Next ==
  \/ \E m \in Modes, s \in {"half", "start"} : StorageLoaded(m, s)
  \/ \E m \in Modes, s \in {"half", "start"} : UpdateSettings(m, s)
  \/ \E vis \in {{}, Shows} : DOMContentLoaded(vis)
  \/ \E e \in Elems : LazyIntersect(e)
  \/ \E e \in Elems : VisIntersect(e)
  \/ TimerBold
  \/ TimerUnbold
  \/ BatchTask
  \/ TagTask
  \/ PageAdds
  \/ \E k \in ExclKinds : PageMarks(k)

Spec == Init /\ [][Next]_vars

SpecText == InitText /\ [][Next]_vars

\* ------------------------------------------------------------------------
\* Other pages and other settings
\* ------------------------------------------------------------------------
\* a page whose elements are all children of body
FlatPage == {"body", "n1", "X", "U"}

\* a page with no element at the depths of CONTAINER_LEVELS
LowPage == {"body", "n1", "n2", "X", "Y"}

Pages == {FlatPage, LowPage, DeepPage}

InitPages == \E page \in Pages : InitProgram(PageTexts, page) /\ call = NoCall

\* values of renderMode: the two the content script tests for, and one the
\* settings popup stores (unnamed/part_001, line 30)
RenderModes == Modes \cup {"fast"}

NextAny ==
  \/ \E m \in RenderModes : StorageLoaded(m, "half")
  \/ \E m \in RenderModes : UpdateSettings(m, "half")
  \/ \E vis \in {{}, Shows} : DOMContentLoaded(vis)
  \/ \E e \in Elems : LazyIntersect(e)
  \/ \E e \in Elems : VisIntersect(e)
  \/ TimerBold
  \/ TimerUnbold
  \/ BatchTask
  \/ TagTask
  \/ \E e \in {"U", "L"} : PageInserts(e)
  \/ \E k \in ExclKinds : PageMarks(k)

SpecAny == InitPages /\ [][NextAny]_vars

\* A session on the flat page.  initializeQuickReader returns at line 311
\* there, before any listener or observer exists, so no queue is filled and
\* no timer or task is set (FlatSessionIdle below, an invariant of SpecAny):
\* these are the steps such a session takes.
InitFlat == InitProgram(PageTexts, FlatPage) /\ call = NoCall

NextFlat ==
  \/ \E m \in RenderModes : StorageLoaded(m, "half")
  \/ \E m \in RenderModes : UpdateSettings(m, "half")
  \/ \E vis \in {{}, Shows} : DOMContentLoaded(vis)
  \/ PageInserts("L")
  \/ \E k \in ExclKinds : PageMarks(k)

\* the browser delivers the storage callback and finishes loading the document
FairFlat ==
  /\ WF_vars(\E m \in RenderModes : StorageLoaded(m, "half"))
  /\ WF_vars(\E vis \in {{}, Shows} : DOMContentLoaded(vis))

SpecFlat == InitFlat /\ [][NextFlat]_vars /\ FairFlat

\* while the tree is flat nothing is observed, queued or scheduled
FlatSessionIdle ==
  levelThreeElements = {} =>
    /\ ~observer /\ dclListeners = 0
    /\ lazyObserved = {} /\ visObserved = {}
    /\ boldQueue = <<>> /\ unboldQueue = <<>>
    /\ debounceTimer = "null" /\ tasks = <<>>

\* ------------------------------------------------------------------------
\* The word transformer on its own: calls of renderWord (line 415) and of
\* the text branch of processNode (lines 405-418) on texts of bounded length
\* ------------------------------------------------------------------------
\* longest word, and longest run of letters and blanks
MaxWordLen == 26

MaxRunLen == 4

Letters ==
  <<"a", "b", "c", "d", "e", "f", "g", "h", "i", "j", "k", "l", "m",
    "n", "o", "p", "q", "r", "s", "t", "u", "v", "w", "x", "y", "z">>

\* the word of n letters a, b, c, ...
LongWord(n) == [i \in 1..n |-> Letters[((i - 1) % Len(Letters)) + 1]]

HelloWorld == <<"h", "e", "l", "l", "o", " ", "w", "o", "r", "l", "d">>

\* texts of letters and blanks
RunInputs ==
  UNION { [1..n -> {"b", "c", " "}] : n \in 0..MaxRunLen } \cup {HelloWorld}

WordInputs == { LongWord(n) : n \in 0..MaxWordLen }

\* longest text with an emoji or a symbol
MaxSymLen == 3

\* texts of letters, emoji and the symbol <
UnicodeInputs == UNION { [1..n -> {"b", "E", "<"}] : n \in 1..MaxSymLen }

\* a token that matches \S+ and holds no character of unicodePattern
IsWord(text) ==
  text # <<>> /\ \A i \in 1..Len(text) : ~IsSpace(text[i]) /\ ~unicodePattern(text[i])

InitWord ==
  /\ InitProgram(PageTexts, DeepPage)
  /\ \E text \in RunInputs \cup WordInputs \cup UnicodeInputs, style \in Styles :
       call = [op |-> "none", text |-> text, style |-> style, out |-> <<>>]

\* renderWord(word) at line 415, with boldingMode = call.style
CallRenderWord ==
  /\ call.op = "none"
  /\ IsWord(call.text)
  /\ call' = [call EXCEPT !.op = "renderWord", !.out = renderWord(call.text, call.style)]
  /\ UNCHANGED <<renderingMode, boldingMode, debounceTimer, boldQueue, unboldQueue, observer, observers,
                 attached, excl, tag, runs, lazyObserved, visObserved, tasks, storagePending,
                 docLoading, dclListeners, orig, fuel, last, rev,
                 timeouts>>

\* lines 405-418 on the text of a text node: the string given to innerHTML
CallProcessNode ==
  /\ call.op = "none"
  /\ call' = [call EXCEPT !.op = "processNode", !.out = Rendered(call.text, call.style)]
  /\ UNCHANGED <<renderingMode, boldingMode, debounceTimer, boldQueue, unboldQueue, observer, observers,
                 attached, excl, tag, runs, lazyObserved, visObserved, tasks, storagePending,
                 docLoading, dclListeners, orig, fuel, last, rev,
                 timeouts>>

\* lines 405-426 on the text of a text node: the fragment that takes the
\* place of the text node at line 433
CallFragment ==
  /\ call.op = "none"
  /\ call' = [call EXCEPT !.op = "fragment",
                          !.out = ParseHTML(Rendered(call.text, call.style))]
  /\ UNCHANGED <<renderingMode, boldingMode, debounceTimer, boldQueue, unboldQueue, observer, observers,
                 attached, excl, tag, runs, lazyObserved, visObserved, tasks, storagePending,
                 docLoading, dclListeners, orig, fuel, last, rev,
                 timeouts>>

NextWord == CallRenderWord \/ CallProcessNode \/ CallFragment

SpecWord == InitWord /\ [][NextWord]_vars

\* ------------------------------------------------------------------------
\* The fast/careful/off variant of the content script (unnamed/part_000):
\* one queue, one timer callback, no reverter and no containers.  It runs on
\* the same document; debounceQueue is kept in boldQueue and the pending
\* callback of debounceRender is the value "bold" of debounceTimer.
\* ------------------------------------------------------------------------
\* the keys of RENDERING_MODES, lines 13-16
RENDERING_MODES == {"fast", "careful"}

\* the modes the popup stores and sends
OldModes == {"fast", "careful", "off"}

\* the handler ended with an uncaught TypeError: RENDERING_MODES[mode] is
\* undefined at lines 103 and 113
Threw == [op |-> "TypeError", q |-> <<>>]

\* renderWord, lines 267-282: the first half, rounded up, of any word
renderWordOld(text) ==
  IF Len(text) = 0 THEN text
  ELSE BOpen \o SubSeq(text, 1, HalfBoldLength(Len(text))) \o BClose
         \o SubSeq(text, HalfBoldLength(Len(text)) + 1, Len(text))

\* lines 220-236
RenderSegmentOld(segment) ==
  IF unicodePattern(segment[1]) THEN segment
  ELSE LET ws == Words(segment)
       IN Flatten([i \in 1..Len(ws) |->
                     IF IsSpace(ws[i][1]) THEN ws[i] ELSE renderWordOld(ws[i])])

RenderedOld(text) ==
  LET segs == Segments(text)
  IN Flatten([i \in 1..Len(segs) |-> RenderSegmentOld(segs[i])])

\* processNode on a text node of element e, lines 205-245; the wrapper span
\* is transparent
processTextNodeOld(node, e) ==
  IF ~node.b /\ node.s # <<>> /\ ~isSideOrInteractiveContent(excl, e)
  THEN ParseHTML(RenderedOld(node.s))
  ELSE <<node>>

\* processNode(element), lines 246-250
processNodeOld(d, e) ==
  LET below == Subtree(e) \cap TextElems \cap attached
  IN [d EXCEPT
        !.runs = [t \in TextElems |->
                    IF t \in below
                    THEN Flatten([i \in 1..Len(d.runs[t]) |->
                                    processTextNodeOld(d.runs[t][i], t)])
                    ELSE d.runs[t]]]

\* the guard of lines 57-59, 87-89, 133-135, 146-148 and 253-255: it does
\* not look at renderingMode
EligibleOld(d, r) ==
  /\ ~RefHasRendered(d, r)
  /\ ~isSideOrInteractiveContent(excl, r.el)

\* lines 253-257
renderElementOld(d, r) ==
  IF EligibleOld(d, r) THEN processNodeOld(d, r.el) ELSE d

\* the timer callback of debounceRender, lines 84-96
RECURSIVE drainRender(_)
drainRender(d) ==
  IF d.boldQueue = <<>> THEN d
  ELSE LET r == Head(d.boldQueue)
           d1 == [d EXCEPT !.boldQueue = Tail(@)]
       IN drainRender(renderElementOld(d1, r))

\* lines 131-141 for the elements of the sequence es that are visible
RECURSIVE scanOld(_, _, _)
scanOld(d, es, vis) ==
  IF es = <<>> THEN d
  ELSE IF Head(es) \in vis /\ EligibleOld(d, Ref(Head(es)))
       THEN scanOld(pushBold(d, Ref(Head(es))), Tail(es), vis)
       ELSE scanOld(d, Tail(es), vis)

\* every registered listener runs the scan
RECURSIVE scansOld(_, _, _)
scansOld(d, n, vis) ==
  IF n = 0 THEN d ELSE scansOld(scanOld(d, scanOrder, vis), n - 1, vis)

\* initializeRendering(), lines 124-196, when the mode is not 'off': one more
\* DOMContentLoaded listener, a lazyObserver on every semantic element and a
\* MutationObserver on the document
initializeRendering ==
  /\ dclListeners' = IF docLoading THEN dclListeners + 1 ELSE dclListeners
  /\ lazyObserved' = lazyObserved \cup lazyTargets
  /\ observer' = TRUE
  /\ observers' = observers + 1

\* what a handler that throws at line 103 or 113 leaves behind
ThrowsAfterModeSet ==
  /\ last' = Threw
  /\ UNCHANGED <<dclListeners, lazyObserved, observer, observers>>

\* chrome.storage.sync.get callback, lines 111-116
StorageLoadedOld(mode) ==
  /\ storagePending
  /\ storagePending' = FALSE
  /\ renderingMode' = mode
  /\ IF mode \in RENDERING_MODES
     THEN initializeRendering /\ last' = NoPass
     ELSE ThrowsAfterModeSet
  /\ UNCHANGED <<boldingMode, debounceTimer, boldQueue, unboldQueue, attached, excl, tag,
                 runs, visObserved, tasks, docLoading, orig, fuel, rev, call,
                 timeouts>>

\* chrome.runtime.onMessage listener, request.action 'updateMode', lines 100-108
UpdateMode(mode) ==
  /\ ~storagePending
  /\ fuel > 0
  /\ fuel' = fuel - 1
  /\ renderingMode' = mode
  /\ IF mode \in RENDERING_MODES
     THEN initializeRendering /\ last' = NoPass
     ELSE ThrowsAfterModeSet
  /\ UNCHANGED <<boldingMode, debounceTimer, boldQueue, unboldQueue, attached, excl, tag,
                 runs, visObserved, tasks, storagePending, docLoading, orig, rev, call,
                 timeouts>>

\* the DOMContentLoaded event, lines 130-141
DOMContentLoadedOld(vis) ==
  /\ docLoading
  /\ ~storagePending
  /\ docLoading' = FALSE
  /\ Commit(scansOld(Doc, dclListeners, vis))
  /\ debounceTimer' = IF boldQueue' # boldQueue THEN "bold" ELSE debounceTimer
  /\ timeouts' = IF boldQueue' # boldQueue THEN debounce(timeouts, debounceTimer, "bold")
                 ELSE timeouts
  /\ last' = NoPass
  /\ UNCHANGED <<renderingMode, boldingMode, observer, observers, attached, excl, storagePending,
                 dclListeners, orig, fuel, rev, call>>

\* lazyObserver callback for one intersecting entry, lines 143-155
LazyIntersectOld(e) ==
  /\ e \in lazyObserved \cap Shows
  /\ fuel > 0
  /\ fuel' = fuel - 1
  /\ EligibleOld(Doc, Ref(e))
  /\ Commit(pushBold(Doc, Ref(e)))
  /\ debounceTimer' = "bold"
  /\ timeouts' = debounce(timeouts, debounceTimer, "bold")
  /\ last' = NoPass
  /\ UNCHANGED <<renderingMode, boldingMode, observer, observers, attached, excl, storagePending,
                 docLoading, dclListeners, orig, rev, call>>

\* visibilityObserver callback for one intersecting entry, lines 52-65
VisIntersectOld(e) ==
  /\ e \in visObserved \cap Shows
  /\ fuel > 0
  /\ fuel' = fuel - 1
  /\ EligibleOld(Doc, Ref(e))
  /\ Commit([pushBold(Doc, Ref(e)) EXCEPT !.visObserved = @ \ {e}])
  /\ debounceTimer' = "bold"
  /\ timeouts' = debounce(timeouts, debounceTimer, "bold")
  /\ last' = NoPass
  /\ UNCHANGED <<renderingMode, boldingMode, observer, observers, attached, excl, storagePending,
                 docLoading, dclListeners, orig, rev, call>>

\* the debounce timer set at line 84 expires
TimerRender ==
  /\ debounceTimer = "bold"
  /\ Commit(drainRender(Doc))
  /\ debounceTimer' = "null"
  /\ timeouts' = expire(timeouts, debounceTimer)
  /\ last' = [op |-> "timerRender", q |-> boldQueue]
  /\ UNCHANGED <<renderingMode, boldingMode, observer, observers, attached, excl, storagePending,
                 docLoading, dclListeners, orig, fuel, rev, call>>

\* the page inserts the element e under body; the MutationObserver callback
\* (lines 163-177) follows
PageInsertsOld(e) ==
  /\ e \notin attached
  /\ Parent(e) = "body"
  /\ ~storagePending
  /\ attached' = attached \cup {e}
  /\ visObserved' = IF observer /\ ~IsBlank(TextContent(runs[e]))
                       /\ ~HasRendered(runs, e) /\ ~isSideOrInteractiveContent(excl, e)
                    THEN visObserved \cup {e} ELSE visObserved
  /\ last' = NoPass
  /\ UNCHANGED <<renderingMode, boldingMode, debounceTimer, boldQueue, unboldQueue, observer, observers,
                 excl, tag, runs, lazyObserved, tasks, storagePending, docLoading,
                 dclListeners, orig, fuel, rev, call,
                 timeouts>>

\* the state after the script has been evaluated, lines 18-21 and 67
InitOld ==
  /\ renderingMode = "fast"
  /\ boldingMode = "half"
  /\ debounceTimer = "null"
  /\ boldQueue = <<>>
  /\ unboldQueue = <<>>
  /\ observer = FALSE
  /\ observers = 0
  /\ attached = DeepPage
  /\ excl = [e \in Elems |-> "none"]
  /\ tag = [e \in Elems |-> "none"]
  /\ runs = [t \in TextElems |-> <<TextNode(PageTexts[t])>>]
  /\ lazyObserved = {}
  /\ visObserved = {}
  /\ tasks = <<>>
  /\ storagePending = TRUE
  /\ docLoading = TRUE
  /\ dclListeners = 0
  /\ orig = [t \in TextElems |-> TextContent(runs[t])]
  /\ fuel = MaxEvents
  /\ last = NoPass
  /\ rev = NoRevert
  /\ call = NoCall
  /\ timeouts = <<>>

NextOld ==
  \/ \E m \in OldModes : StorageLoadedOld(m)
  \/ \E m \in OldModes : UpdateMode(m)
  \/ \E vis \in {{}, Shows} : DOMContentLoadedOld(vis)
  \/ \E e \in Elems : LazyIntersectOld(e)
  \/ \E e \in Elems : VisIntersectOld(e)
  \/ TimerRender
  \/ PageInsertsOld("U")
  \/ \E kind \in ExclKinds : PageMarks(kind)

SpecOld == InitOld /\ [][NextOld]_vars

\* ------------------------------------------------------------------------
\* Scheduling.  The storage callback arrives, and a timer armed with
\* setTimeout expires (lines 121 and 152).  TimerBold and TimerUnbold are
\* enabled exactly when debounceTimer is not null and both set it to null,
\* so weak fairness of the two holds of a behaviour exactly when the timer
\* is not pending for ever.
\* ------------------------------------------------------------------------
TimersFire == []<>(debounceTimer = "null")

\* the steps of Next with the one style 'half'
NextLive ==
  \/ \E m \in Modes : StorageLoaded(m, "half")
  \/ \E m \in Modes : UpdateSettings(m, "half")
  \/ \E vis \in {{}, Shows} : DOMContentLoaded(vis)
  \/ \E e \in Elems : LazyIntersect(e)
  \/ \E e \in Elems : VisIntersect(e)
  \/ TimerBold
  \/ TimerUnbold
  \/ BatchTask
  \/ TagTask
  \/ PageAdds
  \/ \E k \in ExclKinds : PageMarks(k)

SpecLive ==
  /\ Init /\ [][NextLive]_vars
  /\ WF_vars(\E m \in Modes : StorageLoaded(m, "half"))
  /\ TimersFire

\* ------------------------------------------------------------------------
\* Failures of replaceChild (line 433).  The text nodes of the elements in f
\* are those whose replacement throws; the catch clause of lines 449-456
\* logs the error and processNode returns.
\* ------------------------------------------------------------------------
\* a walk that an exception ends: the text nodes that come after the first
\* failing one are not visited
processNodeAborts(d, e, style, f) ==
  LET below == Subtree(e) \cap TextElems \cap attached
      thrown == { t \in below \cap f : Replaces(d.runs[t], t) }
      seen == { t \in below : \A x \in thrown : Pos(t) < Pos(x) }
      hit == { t \in seen : Replaces(d.runs[t], t) }
  IN [d EXCEPT
        !.runs = [t \in TextElems |->
                    IF t \in seen
                    THEN Flatten([i \in 1..Len(d.runs[t]) |->
                                    processTextNode(d.runs[t][i], t, style)])
                    ELSE d.runs[t]],
        !.tag = Promote(d.tag, hit)]

\* processNode(element), lines 392-464, when replaceChild throws for the
\* text nodes of f: they stay, their container is not promoted (line 445 is
\* not reached), and forEach (line 462) goes on with the next child
processNodeFails(d, e, style, f) ==
  LET below == (Subtree(e) \cap TextElems \cap attached) \ f
      hit == { t \in below : Replaces(d.runs[t], t) }
  IN [d EXCEPT
        !.runs = [t \in TextElems |->
                    IF t \in below
                    THEN Flatten([i \in 1..Len(d.runs[t]) |->
                                    processTextNode(d.runs[t][i], t, style)])
                    ELSE d.runs[t]],
        !.tag = Promote(d.tag, hit)]

\* lines 466-473
renderElementFails(d, r, mode, style, f) ==
  IF Eligible(d, r, mode) /\ RefLive(r) THEN processNodeFails(d, r.el, style, f) ELSE d

\* the timer callback of debounceRenderBold, lines 122-134
RECURSIVE drainBoldFails(_, _, _, _)
drainBoldFails(d, mode, style, f) ==
  IF d.boldQueue = <<>> THEN d
  ELSE LET r == Head(d.boldQueue)
           d1 == [d EXCEPT !.boldQueue = Tail(@)]
       IN drainBoldFails(renderElementFails(d1, r, mode, style, f), mode, style, f)

\* the debounce timer set at line 121 expires, and replaceChild throws for
\* the text nodes of f
TimerBoldFails(f) ==
  /\ debounceTimer = "bold"
  /\ Commit(drainBoldFails(Doc, renderingMode, boldingMode, f))
  /\ debounceTimer' = "null"
  /\ timeouts' = expire(timeouts, debounceTimer)
  /\ last' = [op |-> "timerBoldFails", q |-> boldQueue, f |-> f]
  /\ rev' = NoRevert
  /\ UNCHANGED <<renderingMode, boldingMode, observer, observers, attached, excl, storagePending,
                 docLoading, dclListeners, orig, fuel, call>>

\* the page marks or unmarks the text element e itself
PageMarksElem(e, kind) ==
  /\ ~storagePending
  /\ fuel > 0
  /\ fuel' = fuel - 1
  /\ excl[e] # kind
  /\ excl' = [excl EXCEPT ![e] = kind]
  /\ last' = NoPass
  /\ rev' = NoRevert
  /\ UNCHANGED <<renderingMode, boldingMode, debounceTimer, boldQueue, unboldQueue, observer, observers,
                 attached, tag, runs, lazyObserved, visObserved, tasks, storagePending,
                 docLoading, dclListeners, orig, call, timeouts>>

\* a page that inserts nothing: the steps of NextLive that can occur on
\* it, the page marking B instead of X, and the timer passes in which the
\* replacement of the text node of A or of B fails
NextFails ==
  \/ \E m \in Modes : StorageLoaded(m, "half")
  \/ \E m \in Modes : UpdateSettings(m, "half")
  \/ \E vis \in {{}, Shows} : DOMContentLoaded(vis)
  \/ \E e \in Elems : LazyIntersect(e)
  \/ TimerBold
  \/ BatchTask
  \/ TagTask
  \/ \E t \in {"A", "B"} : TimerBoldFails({t})
  \/ \E k \in ExclKinds : PageMarksElem("B", k)

\* the page of the main specification with a blank text in Y
InitFails == InitWith([PageTexts EXCEPT !["Y"] = <<" ", " ">>])

SpecFails == InitFails /\ [][NextFails]_vars

\* the page of the main specification with the text "bb bb" in A and the
\* text "b b" in the paragraph B: every word of B has one character
InitShort ==
  InitWith([PageTexts EXCEPT !["A"] = <<"b", "b", " ", "b", "b">>,
                             !["B"] = <<"b", " ", "b">>])

SpecShort == InitShort /\ [][NextLive]_vars

TypeOK ==
  /\ renderingMode \in Modes
  /\ debounceTimer \in {"null", "bold", "unbold"}
  /\ boldingMode \in Styles
  /\ fuel \in 0..MaxEvents
  /\ observers \in Nat
  /\ \A e \in Elems : tag[e] \in {"none", "inactive", "active"}

\* ------------------------------------------------------------------------
\* Properties
\* ------------------------------------------------------------------------
\* the text elements of the live tree
LiveText == TextElems \cap attached

\* e lies in a region marked as a dialog, a sidebar or an overlay
InExcludedRegion(e) == \E a \in Ancestors(e) : excl[a] # "none"

\* no run gains a processed span in a step
NoSpanGained == \A t \in TextElems : CountB(runs'[t]) <= CountB(runs[t])

\* a queued request for a node of the live tree, with the mode on, no
\* processed span at the element and the element outside every excluded region
StillValid(r) ==
  /\ renderingMode = "on"
  /\ RefLive(r)
  /\ ~RefHasRendered(Doc, r)
  /\ ~InExcludedRegion(r.el)

\* C1: no processed span is ever nested inside another, and a transform
\* pass leaves every run that already holds a processed span as it was
C1_Idempotent ==
  /\ [](\A t \in TextElems : ~RunHasNested(runs[t]))
  /\ [][\A t \in TextElems :
          (last'.op = "timerBold" /\ RunHasB(runs[t])) => runs'[t] = runs[t]]_vars

\* C2: once a revert has removed every processed span, every run has the
\* text it had before the transform
C2_RoundTrip ==
  (renderingMode = "off" /\ tasks = <<>> /\ \A t \in TextElems : ~RunHasB(runs[t]))
    => \A t \in TextElems : TextContent(runs[t]) = orig[t]

\* C3: when a revert started while some processed span had no tagged
\* ancestor, no processed span is left in the tree once the revert is over
C3_FallbackUnwraps ==
  (rev.on /\ rev.untraced /\ tasks = <<>>) => \A t \in LiveText : ~RunHasB(runs[t])

\* C4: no step that ends with the mode off puts a processed span into a run
C4_OffNeverReplaces == [][renderingMode' = "off" => NoSpanGained]_vars

C4_Witness ==
  /\ last.op = "timerBold"
  /\ renderingMode = "off"
  /\ \E i \in 1..Len(last.q) :
       /\ RefLive(last.q[i])
       /\ ~isSideOrInteractiveContent(excl, last.q[i].el)
       /\ \E t \in Subtree(last.q[i].el) \cap LiveText : TRUE
       /\ \A t \in Subtree(last.q[i].el) \cap LiveText : runs[t] = <<TextNode(orig[t])>>

\* C5: a text run inside an excluded region, whether the marker is a role
\* or a class and whether it sits on the element or on an ancestor, never
\* gains a processed span
C5_ExcludedNeverTransformed ==
  [][\A t \in TextElems :
       InExcludedRegion(t) => CountB(runs'[t]) <= CountB(runs[t])]_vars

\* C6: the one pass that follows a burst of enqueues serves all of them:
\* when no timer is pending, nothing is left in a queue
C6_OnePassServesAll ==
  debounceTimer = "null" => (boldQueue = <<>> /\ unboldQueue = <<>>)

\* C7: a timer expiry empties both queues, whichever enqueue armed the timer
C7_ExpiryDrainsBoth ==
  [][(debounceTimer # "null" /\ debounceTimer' = "null")
       => (boldQueue' = <<>> /\ unboldQueue' = <<>>)]_vars

\* C8: the transform pass takes every request off the queue, and changes a
\* run or a tag only on behalf of a request that is still valid when the
\* pass runs: mode on, no processed span at the element, element not inside
\* an excluded region
C8_ValidatedAtDrain ==
  [][(debounceTimer = "bold" /\ debounceTimer' = "null") =>
       /\ boldQueue' = <<>>
       /\ \A t \in TextElems :
            runs'[t] # runs[t] =>
              \E i \in 1..Len(boldQueue) :
                StillValid(boldQueue[i]) /\ t \in Subtree(boldQueue[i].el)
       /\ tag' # tag => \E i \in 1..Len(boldQueue) : StillValid(boldQueue[i])]_vars

\* C9: once the revert started by a notification is over, every container
\* that was Inactive, or Active with a processed span, when it started has
\* no container tag
C9_RevertClearsTags ==
  (rev.on /\ tasks = <<>>) => \A e \in rev.owed \cap attached : tag[e] = "none"

\* C10: the nearest tagged ancestor of a processed span is an Active container
C10_NearestTaggedIsActive ==
  \A t \in LiveText :
    (RunHasB(runs[t]) /\ Closest(tag, t) # "none") => tag[Closest(tag, t)] = "active"

\* C11: a mode notification that carries the mode and the style the script
\* already has leaves the tree as it was: every run and every container tag
C11_SameModeNoChange ==
  [][UpdateSettings(renderingMode, boldingMode) => (runs' = runs /\ tag' = tag)]_vars

\* C14: a visibility watcher, the startup one or the standing one, that
\* enqueues an element as a transform request no longer observes the element
\* after that
C14_OneShot ==
  [][\A e \in Elems :
       /\ LazyIntersect(e) => e \notin lazyObserved'
       /\ (VisIntersect(e) /\ boldQueue' # boldQueue) => e \notin visObserved']_vars

\* C16: a run of the tagger, at startup or in a re-initialization, leaves
\* the status of every container that is already tagged as it was
C16_TaggerKeepsStatus ==
  [][(StorageLoaded(renderingMode', boldingMode')
        \/ (renderingMode' # "off" /\ UpdateSettings(renderingMode', boldingMode')))
       => \A e \in Elems : tag[e] # "none" => tag'[e] = tag[e]]_vars

\* C12: on a page that is shallow when the script starts, no container is
\* ever tagged, and while the mode is on the paragraph U, a visible
\* eligible element with a word of two letters, is eventually transformed
C12_ShallowStillProcesses ==
  /\ [](levelThreeElements = {} => \A e \in Elems : tag[e] = "none")
  /\ []((~storagePending /\ ~docLoading /\ levelThreeElements = {} /\ renderingMode = "on"
           /\ "U" \in attached /\ ~isSideOrInteractiveContent(excl, "U"))
          => <>(RunHasB(runs["U"]) \/ renderingMode # "on"))

\* a step that calls processContainers: a notification that turns the mode
\* off, or a revert pass that finds a request with a processed span
RevertCalled ==
  \/ UpdateSettings("off", boldingMode')
  \/ /\ debounceTimer = "unbold" /\ debounceTimer' = "null"
     /\ renderingMode = "off"
     /\ \E i \in 1..Len(unboldQueue) : RefHasRendered(Doc, unboldQueue[i])

EligibleTarget(e) == IsSemantic(e) /\ ~InExcludedRegion(e) /\ ~HasRendered(runs, e)

\* C15: every element a step adds to the transform queue is an eligible
\* target, and the transform pass changes a run only on behalf of a queued
\* element that is one
C15_OnlyEligibleTargets ==
  [][/\ \A i \in (Len(boldQueue) + 1)..Len(boldQueue') : EligibleTarget(boldQueue'[i].el)
     /\ (debounceTimer = "bold" /\ debounceTimer' = "null") =>
          \A t \in TextElems :
            runs'[t] # runs[t] =>
              \E i \in 1..Len(boldQueue) :
                t \in Subtree(boldQueue[i].el) /\ EligibleTarget(boldQueue[i].el)]_vars

\* C17: a notification that turns the mode off starts the revert in the same
\* step, with no timer armed and no request queued: the flat unwrap when no
\* container is tagged, else the first container is served (an Inactive one
\* loses its tag, an Active one with spans is replaced or has its next
\* sub-batch scheduled), and nothing is handed to the standing watcher, the
\* mode being off already.  A notification that turns the mode on runs the
\* initialization again: the tagger has tagged every eligible element at
\* depths 3 and 4, the startup watcher observes every semantic element
\* present, and the change watcher exists.
C17_NotificationActsAtOnce ==
  [][\A m \in Modes :
       UpdateSettings(m, boldingMode') =>
         /\ m = "off" =>
              /\ debounceTimer' = debounceTimer
              /\ Len(unboldQueue') = Len(unboldQueue)
              /\ visObserved' \subseteq visObserved
              /\ IF containers(Doc) = <<>>
                 THEN \A t \in LiveText : ~RunHasB(runs'[t])
                 ELSE LET c == Head(containers(Doc))
                      IN /\ tag[c] = "inactive" => tag'[c] = "none"
                         /\ (tag[c] = "active" /\ HasRendered(runs, c))
                              => (tag'[c] = "none" \/ tasks' # tasks)
         /\ m = "on" =>
              /\ \A e \in allElements :
                   (IsSemantic(e) /\ ~isSideOrInteractiveContent(excl, e)) => tag'[e] = "inactive"
              /\ lazyTargets \subseteq lazyObserved'
              /\ observer']_vars

\* C18: while the mode holds a value that is neither 'on' nor 'off', the
\* script treats every element as it does with the mode on: the guard of the
\* watchers and of the timer pass admits the same elements, and the
\* transformer does to them what it does with the mode on
C18_UnknownModeIsOn ==
  renderingMode \notin Modes =>
    \A e \in attached :
      /\ Eligible(Doc, Ref(e), renderingMode) <=> Eligible(Doc, Ref(e), "on")
      /\ renderElement(Doc, Ref(e), renderingMode, boldingMode)
           = renderElement(Doc, Ref(e), "on", boldingMode)

\* position of the first end tag in a string of markup
EndTagAt(out) ==
  CHOOSE j \in 1..Len(out) :
    /\ j + 1 <= Len(out) /\ out[j] = "<" /\ out[j + 1] = "/"
    /\ \A h \in 1..(j - 1) : ~(h + 1 <= Len(out) /\ out[h] = "<" /\ out[h + 1] = "/")

\* the value of renderWord is <b>, n characters, </b> and a remainder, and
\* the n characters followed by the remainder are the word
EmphasizesPrefix(w, out, n) ==
  /\ Len(out) = Len(w) + Len(BOpen) + Len(BClose)
  /\ SubSeq(out, 1, Len(BOpen)) = BOpen
  /\ EndTagAt(out) = Len(BOpen) + n + 1
  /\ SubSeq(out, EndTagAt(out), EndTagAt(out) + Len(BClose) - 1) = BClose
  /\ SubSeq(out, Len(BOpen) + 1, Len(BOpen) + n)
       \o SubSeq(out, Len(BOpen) + n + Len(BClose) + 1, Len(out)) = w

\* a string of markup without its <b> and </b>
RECURSIVE StripTags(_)
StripTags(out) ==
  IF out = <<>> THEN <<>>
  ELSE IF Len(out) >= Len(BOpen) /\ SubSeq(out, 1, Len(BOpen)) = BOpen
       THEN StripTags(SubSeq(out, Len(BOpen) + 1, Len(out)))
  ELSE IF Len(out) >= Len(BClose) /\ SubSeq(out, 1, Len(BClose)) = BClose
       THEN StripTags(SubSeq(out, Len(BClose) + 1, Len(out)))
  ELSE <<Head(out)>> \o StripTags(Tail(out))

\* the least integer that is at least len / 2
CeilHalf(len) == CHOOSE k \in 0..len : 2 * k >= len /\ 2 * (k - 1) < len

\* C19: with style half, renderWord emphasizes the first ceil(len / 2)
\* characters of a word of two characters or more and leaves the remainder
\* plain, both together being the word; the text branch adds nothing but
\* the tags to a run of words and blanks, and on the run 'hello world' it
\* gives <b>hel</b>lo <b>wor</b>ld
C19_HalfPrefix ==
  /\ (call.op = "renderWord" /\ call.style = "half" /\ Len(call.text) >= 2)
       => EmphasizesPrefix(call.text, call.out, CeilHalf(Len(call.text)))
  /\ (call.op = "processNode" /\ call.style = "half")
       => StripTags(call.out) = call.text
  /\ (call.op = "processNode" /\ call.style = "half" /\ call.text = HelloWorld)
       => call.out = BOpen \o <<"h", "e", "l">> \o BClose \o <<"l", "o", " ">>
                      \o BOpen \o <<"w", "o", "r">> \o BClose \o <<"l", "d">>

C19_Witness ==
  /\ call.op = "renderWord" /\ call.style = "half"
  /\ Len(call.text) = 5 /\ Len(call.out) = 12

\* clamp(r, 1, 7) for the integer r nearest to 3 * len / 10, a half going up
ClampRound03(len) ==
  LET r == CHOOSE k \in 0..len : 10 * k - 5 <= 3 * len /\ 3 * len < 10 * k + 5
  IN IF r < 1 THEN 1 ELSE IF r > 7 THEN 7 ELSE r

\* C20: with style start, renderWord emphasizes the first
\* clamp(round(len * 0.3), 1, 7) characters of a word of two characters or
\* more, which is fewer than the word has, and leaves the remainder plain,
\* both together being the word
C20_StartPrefix ==
  (call.op = "renderWord" /\ call.style = "start" /\ Len(call.text) >= 2)
    => /\ EmphasizesPrefix(call.text, call.out, ClampRound03(Len(call.text)))
       /\ ClampRound03(Len(call.text)) < Len(call.text)

\* a word long enough for the cap of 7 to apply
C20_Witness ==
  /\ call.op = "renderWord" /\ call.style = "start"
  /\ Len(call.text) = 25 /\ EndTagAt(call.out) = 11

\* every word of the text has one character: no two characters that are
\* not blank stand side by side
OneCharWords(text) ==
  /\ \A i \in 1..Len(text) : ~unicodePattern(text[i])
  /\ \A i \in 1..(Len(text) - 1) : IsSpace(text[i]) \/ IsSpace(text[i + 1])

\* C21: with every style, half, start or another, renderWord returns a
\* word of fewer than two characters as it is, without markup, and the text
\* branch on a run of one-character words gives the run itself, which
\* parses to a fragment without a processed span
C21_ShortWordsPlain ==
  /\ (call.op = "renderWord" /\ Len(call.text) < 2) => call.out = call.text
  /\ (call.op = "processNode" /\ OneCharWords(call.text))
       => /\ call.out = call.text
          /\ ~RunHasB(ParseHTML(call.out))

C21_Witness ==
  /\ call.op = "renderWord" /\ call.style = "other"
  /\ Len(call.text) = 1 /\ call.out = call.text

\* C22: with a style that is neither half nor start, renderWord returns for
\* every word what it returns with style half: a word of two characters or
\* more with its first ceil(len / 2) characters emphasized, a shorter word
\* as it is
C22_UnknownStyleIsHalf ==
  (call.op = "renderWord" /\ call.style \notin {"half", "start"})
    => /\ call.out = renderWord(call.text, "half")
       /\ Len(call.text) >= 2
            => EmphasizesPrefix(call.text, call.out, CeilHalf(Len(call.text)))

C22_Witness ==
  /\ call.op = "renderWord" /\ call.style = "other"
  /\ Len(call.text) = 8 /\ EndTagAt(call.out) = 8

\* C23: in the fragment that takes the place of a transformed text node
\* the characters of the text stand in their order, emoji and symbols
\* included, and no emoji or symbol lies inside a processed span
C23_UnicodeSafety ==
  call.op = "fragment"
    => /\ TextContent(call.out) = call.text
       /\ \A i \in 1..Len(call.out) :
            call.out[i].b => \A j \in 1..Len(call.out[i].s) : ~unicodePattern(call.out[i].s[j])

\* the markup string keeps every emoji and symbol where it stood, and so
\* does the fragment of a text without the symbol <
StringKeepsSegments ==
  /\ call.op = "processNode" => StripTags(call.out) = call.text
  /\ (call.op = "fragment" /\ \A i \in 1..Len(call.text) : call.text[i] # "<")
       => TextContent(call.out) = call.text

\* with the mode 'off' no step of the variant adds a processed span
OffStopsRendering == [][renderingMode = "off" => NoSpanGained]_vars

\* C24: in the fast/careful/off variant the handler of an updateMode
\* notification with mode 'off' does not end with an uncaught exception,
\* and once the mode is 'off' no observer callback and no timer callback
\* adds a processed span
C24_OffDisablesRendering ==
  /\ [][UpdateMode("off") => last' # Threw]_vars
  /\ OffStopsRendering

\* C25: a batch or a sub-batch of the reverter that runs while the mode is
\* on clears no tag and changes no run
C25_RevertRevalidatesMode ==
  [][((BatchTask \/ TagTask) /\ renderingMode = "on") => (runs' = runs /\ tag' = tag)]_vars

\* a transform request for the element e that is still valid is queued, and
\* the timer armed by debounceRenderBold is pending
RequestPending(e) ==
  /\ debounceTimer = "bold"
  /\ \E i \in 1..Len(boldQueue) : boldQueue[i].el = e /\ StillValid(boldQueue[i])

\* the text below e has been transformed, or there is none to transform
TextTransformed(e) ==
  \/ HasRendered(runs, e)
  \/ \A t \in Subtree(e) \cap TextElems \cap attached : IsBlank(TextContent(runs[t]))

\* the mode has left 'on', or the queued node of e has left the tree or
\* has come to lie in an excluded region
RequestVoid(e) ==
  \/ renderingMode # "on"
  \/ InExcludedRegion(e)
  \/ \E i \in 1..Len(boldQueue) : boldQueue[i].el = e /\ ~RefLive(boldQueue[i])

\* C26: a valid transform request that is queued with the timer of its
\* enqueue pending leads to the text of its element being transformed,
\* unless the mode leaves 'on' or the element leaves the tree or becomes
\* excluded
C26_RequestsAreServed ==
  \A e \in Elems : [](RequestPending(e) => <>(TextTransformed(e) \/ RequestVoid(e)))

\* a timer pass has served a request for A and the text of A is transformed
C26_Witness ==
  /\ renderingMode = "on" /\ last.op = "timerBold"
  /\ \E i \in 1..Len(last.q) : last.q[i].el = "A" /\ RefLive(last.q[i])
  /\ RunHasB(runs["A"]) /\ boldQueue = <<>>

\* C27: at most one timeout is armed, the one debounceTimer names, whichever
\* queue it was armed for; every enqueue to either queue leaves exactly one
\* armed; and a timer callback leaves none armed and the handle null
C27_OneSharedTimer ==
  /\ [](timeouts = IF debounceTimer = "null" THEN <<>> ELSE <<debounceTimer>>)
  /\ [][(Len(boldQueue') > Len(boldQueue) \/ Len(unboldQueue') > Len(unboldQueue))
          => (Len(timeouts') = 1 /\ debounceTimer' # "null")]_vars
  /\ [][(TimerBold \/ TimerUnbold) => (debounceTimer' = "null" /\ timeouts' = <<>>)]_vars

\* a revert request was enqueued while the timeout of a transform request
\* was armed
C27_Witness ==
  /\ boldQueue # <<>> /\ unboldQueue # <<>>
  /\ debounceTimer = "unbold" /\ timeouts = <<"unbold">>

\* C28: a timer pass serves the transform requests from the front of the
\* queue, to which every enqueue appends, whichever timer was pending when
\* the request was enqueued.  Serving the first request, for an element x,
\* therefore comes before serving a later request for an element y that
\* contains x: when the pass transforms x, it finds a processed span below
\* y afterwards and leaves the text node of y itself as it was; and every
\* enqueue keeps the requests already queued, in their order, in front of
\* the new one
C28_FifoDispatch ==
  /\ [][TimerBold =>
          \A j \in 2..Len(boldQueue) :
            LET x == boldQueue[1].el
                y == boldQueue[j].el
            IN (/\ y \in TextElems /\ y # x /\ x \in Subtree(y)
                /\ ~HasRendered(runs, y) /\ HasRendered(runs', x))
                 => runs'[y] = runs[y]]_vars
  /\ [][Len(boldQueue') > Len(boldQueue)
          => SubSeq(boldQueue', 1, Len(boldQueue)) = boldQueue]_vars
  /\ [][Len(unboldQueue') > Len(unboldQueue)
          => SubSeq(unboldQueue', 1, Len(unboldQueue)) = unboldQueue]_vars

\* a pass found a request for B in front of a request for A, which
\* contains B, and transformed B only
C28_Witness ==
  /\ last.op = "timerBold" /\ Len(last.q) >= 2
  /\ last.q[1].el = "B" /\ \E j \in 2..Len(last.q) : last.q[j].el = "A"
  /\ RunHasB(runs["B"]) /\ ~RunHasB(runs["A"])

\* the document in which the text node of f is empty, so that a walk skips it
WithEmptyText(f) == [Doc EXCEPT !.runs[f] = <<TextNode(<<>>)>>]

\* C29: a transform pass leaves a run as it was when its text is blank,
\* when its element is not in the tree or when its element carries an
\* exclusion marker, and it changes nothing when every queued node has left
\* the tree; and a pass in which replacing the text node of f fails
\* leaves that node as it was, does to every other run and to the container
\* tags what a pass without failure does when the walk skips f, and
\* empties the queue
C29_SkipsAndFailures ==
  /\ [][last'.op \in {"timerBold", "timerBoldFails"} =>
          \A t \in TextElems :
            (IsBlank(TextContent(runs[t])) \/ t \notin attached \/ excl[t] # "none")
              => runs'[t] = runs[t]]_vars
  /\ [][(last'.op \in {"timerBold", "timerBoldFails"}
           /\ \A i \in 1..Len(boldQueue) : ~RefLive(boldQueue[i]))
          => runs' = runs]_vars
  /\ [][\A f \in TextElems :
          (last'.op = "timerBoldFails" /\ last'.f = {f} /\ ~RunHasB(runs[f])) =>
             LET ref == drainBold(WithEmptyText(f), renderingMode, boldingMode)
             IN /\ runs'[f] = runs[f]
                /\ \A t \in TextElems \ {f} : runs'[t] = ref.runs[t]
                /\ tag' = ref.tag
                /\ boldQueue' = <<>> /\ debounceTimer' = "null"]_vars

\* a pass served a request for A first; replacing the text node of A
\* failed, and the walk went on to transform the text of B below A
C29_Witness ==
  /\ renderingMode = "on" /\ last.op = "timerBoldFails" /\ boldQueue = <<>>
  /\ last.q # <<>> /\ last.q[1].el = "A" /\ RefLive(last.q[1])
  /\ ~RunHasB(runs["A"]) /\ RunHasB(runs["B"])

\* the containers a processBatch call from containers[index] goes through
BatchRange(cs, index) == index..Min(index + batchSize - 1, Len(cs))

\* the status processBatch reads for the container behind the reference r
StatusOf(r) == IF RefLive(r) THEN tag[r.el] ELSE r.st

\* every container of the batch is Inactive, and the batch is not the one
\* that ends with the document-wide fallback of lines 277-293
InactiveBatch(cs, index, hasActive) ==
  /\ \A i \in BatchRange(cs, index) : StatusOf(cs[i]) = "inactive"
  /\ (index + batchSize - 1 < Len(cs) \/ hasActive)

\* what a batch of Inactive containers leaves behind: the tags of its
\* containers that are in the tree are cleared, and nothing else changed:
\* every run of text and spans, every other tag, and every node the queues
\* and the observers refer to is the one it was
OnlyUntagged(cs, index) ==
  /\ runs' = runs
  /\ tag' = [e \in Elems |->
               IF \E i \in BatchRange(cs, index) : cs[i].el = e /\ RefLive(cs[i])
               THEN "none" ELSE tag[e]]
  /\ boldQueue' = boldQueue /\ unboldQueue' = unboldQueue
  /\ lazyObserved' = lazyObserved /\ visObserved' = visObserved
  /\ attached' = attached

\* C30: a batch of the Reverter in which every container is Inactive only
\* removes the container tags: the text, the spans and the tags beneath
\* the containers are left exactly as they were, and no container node is
\* replaced
C30_InactiveOnlyUntagged ==
  /\ [][(BatchTask /\ InactiveBatch(Head(tasks).cs, Head(tasks).index, Head(tasks).hasActive))
          => OnlyUntagged(Head(tasks).cs, Head(tasks).index)]_vars
  /\ [][LET cs == containers(Doc)
            refs == [i \in 1..Len(cs) |-> Ref(cs[i])]
        IN (cs # <<>> /\ UpdateSettings("off", boldingMode') /\ InactiveBatch(refs, 1, FALSE))
             => OnlyUntagged(refs, 1)]_vars

\* a notification started a revert whose first batch went through
\* Inactive containers only; one of them has lost its tag and still has a
\* processed span beneath it, and the next batch is scheduled
C30_Witness ==
  /\ renderingMode = "off" /\ rev.on
  /\ tasks # <<>> /\ Head(tasks).k = "batch" /\ ~Head(tasks).hasActive
  /\ Head(tasks).index = batchSize + 1
  /\ \E c \in rev.owed : tag[c] = "none" /\ HasRendered(runs, c)

\* the reference r is to an Active container in the tree with no processed
\* span beneath it (boldTags.length === 0, line 219)
ZeroSpans(r) == RefLive(r) /\ tag[r.el] = "active" /\ ~HasRendered(runs, r.el)

\* the reference r is to an Active container that has left the tree
\* (!container.parentNode, line 254)
GoneActive(r) == ~RefLive(r) /\ r.st = "active"

SkippedContainer(r) == ZeroSpans(r) \/ GoneActive(r)

\* containers[j] lies beneath a container of the same batch that this step
\* replaces by its clone
BeneathReplaced(cs, index, j) ==
  \E k \in BatchRange(cs, index) :
    /\ k < j /\ RefLive(cs[k]) /\ cs[k].el # cs[j].el
    /\ cs[j].el \in Subtree(cs[k].el)
    /\ tag[cs[k].el] = "active" /\ HasRendered(runs, cs[k].el)
    /\ tag'[cs[k].el] = "none"

\* the step has done for containers[j] what processBatch does for a
\* container it does not skip: an Inactive one has lost its tag; an Active
\* one with spans is replaced by its unwrapped clone, or its next
\* sub-batch of spans is scheduled
ServedContainer(cs, j) ==
  LET e == cs[j].el
  IN /\ (RefLive(cs[j]) /\ tag[e] = "inactive") => tag'[e] = "none"
     /\ (RefLive(cs[j]) /\ tag[e] = "active" /\ HasRendered(runs, e)) =>
          \/ tag'[e] = "none" /\ ~HasRendered(runs', e)
          \/ \E n \in 1..Len(tasks') : tasks'[n].k = "tag" /\ tasks'[n].c.el = e

SkipsAndGoesOn(cs, index) ==
  /\ \A i \in BatchRange(cs, index) :
       ZeroSpans(cs[i]) =>
         /\ tag'[cs[i].el] = "active"
         /\ \A t \in Subtree(cs[i].el) \cap TextElems : runs'[t] = runs[t]
  /\ (\A i \in BatchRange(cs, index) : SkippedContainer(cs[i])) =>
       (runs' = runs /\ tag' = tag)
  /\ \A j \in BatchRange(cs, index) :
       (~SkippedContainer(cs[j]) /\ ~BeneathReplaced(cs, index, j)) => ServedContainer(cs, j)
  /\ index + batchSize - 1 < Len(cs) =>
       /\ tasks' # <<>>
       /\ tasks'[Len(tasks')].k = "batch"
       /\ tasks'[Len(tasks')].index = index + batchSize

\* C31: a batch of the Reverter that meets an Active container with no
\* processed span, or an Active container that has left the tree, leaves
\* the tree and the tag of that container as they were, serves every other
\* container of the batch and schedules the next batch; and a sub-batch
\* that finds its container gone when the clone is due to be swapped in
\* changes nothing and leaves the scheduled batches in place
C31_SkipsAndGoesOn ==
  /\ [][(BatchTask /\ \E i \in BatchRange(Head(tasks).cs, Head(tasks).index) :
                         SkippedContainer(Head(tasks).cs[i]))
          => SkipsAndGoesOn(Head(tasks).cs, Head(tasks).index)]_vars
  /\ [][LET cs == containers(Doc)
            refs == [i \in 1..Len(cs) |-> Ref(cs[i])]
        IN (cs # <<>> /\ UpdateSettings("off", boldingMode')
              /\ \E i \in BatchRange(refs, 1) : SkippedContainer(refs[i]))
             => SkipsAndGoesOn(refs, 1)]_vars
  /\ [][(TagTask /\ ~RefLive(Head(tasks).c)
           /\ ~boldTagsLeft(processTags(Head(tasks).cl, tagBatchSize)))
          => (runs' = runs /\ tag' = tag /\ tasks' = Tail(tasks))]_vars

\* a notification started a revert that met the Active container b with no
\* span beneath it, left its tag in place, and went on to clear the tag of
\* the container c that follows it in the document
C31_Witness ==
  /\ renderingMode = "off" /\ rev.on
  /\ \E b \in attached, c \in rev.owed :
       /\ b \notin rev.owed /\ tag[b] = "active" /\ ~HasRendered(runs, b)
       /\ Pos(b) < Pos(c) /\ c \notin Subtree(b)
       /\ tag[c] = "none"

\* C32: however many times the script is initialized, at most one
\* MutationObserver exists, and it exists exactly when the variable observer
\* holds one; and its callback only hands added nodes to the
\* visibilityObserver: a step in which the page adds a node, or in which the
\* Reverter swaps a clone in, puts no request in a queue, arms no timer and
\* adds no processed span
C32_OneChangeWatcher ==
  /\ [](observers <= 1 /\ (observer <=> observers = 1))
  /\ [][attached' # attached =>
          /\ boldQueue' = boldQueue /\ unboldQueue' = unboldQueue
          /\ debounceTimer' = debounceTimer /\ timeouts' = timeouts
          /\ runs' = runs /\ tag' = tag
          /\ visObserved \subseteq visObserved'
          /\ visObserved' \subseteq visObserved \cup (attached' \ attached)]_vars
  /\ [][(BatchTask \/ TagTask) =>
          /\ Len(boldQueue') = Len(boldQueue) /\ Len(unboldQueue') = Len(unboldQueue)
          /\ debounceTimer' = debounceTimer /\ timeouts' = timeouts
          /\ NoSpanGained]_vars

\* the script was initialized twice while the document was loading, one
\* MutationObserver exists, and the paragraph the page added is registered
\* with the visibilityObserver while both queues are empty
C32_Witness ==
  /\ dclListeners >= 2 /\ observers = 1
  /\ "U" \in attached /\ "U" \in visObserved
  /\ boldQueue = <<>> /\ unboldQueue = <<>> /\ ~RunHasB(runs["U"])

\* C33: while no batch and no sub-batch of a revert is pending, every
\* container of the tree that is Active has a processed span beneath it
C33_ActiveHasSpan ==
  tasks = <<>> => \A e \in attached : tag[e] = "active" => HasRendered(runs, e)

====
